---- MODULE Spec2Model ----
(***************************************************************************)
(* lcov-diff: diff_reports and the recursive Diff trait of src/lib.rs.     *)
(*                                                                         *)
(* A Report is modelled by its `sections` map, a function from section     *)
(* keys to sections; a section is a record of three maps (functions,       *)
(* branches, lines).  An Option<T> is modelled as a set with at most one   *)
(* element: None is {} and Some(x) is {x}.  Keys are naturals, so that the *)
(* ascending iteration order of a BTreeMap is the order of the naturals.   *)
(***************************************************************************)
EXTENDS Naturals, Sequences, FiniteSets, TLC

VARIABLES first, second, ignore, post_process_options, rep, todo, pc, ret

vars == <<first, second, ignore, post_process_options, rep, todo, pc, ret>>

(***************************************************************************)
(* Bounds of the model.                                                    *)
(***************************************************************************)
\* the positive count (and taken-count) the records of `first` hold
MaxCount == 2

\* the keys the input reports draw from: two source files; a file has one
\* function, one branch and one line
SectionKeys == {1, 2}
FunctionKeys == {1}
BranchKeys == {1}
LineKeys == {1}

\* Start lines and checksums are only ever compared for equality, and only
\* between the two records of one key: `first` draws them from one value,
\* `second` from two, so that both are absent, equal and unequal in turn.
FirstStartLines == {10}
SecondStartLines == {10, 20}
FirstChecksums == {"x"}
SecondChecksums == {"x", "y"}

\* The counts of `first` are only kept or cleared: they are 0 or MaxCount.
\* The counts of `second` are only compared with 0: they are 0 or 1.
FirstCounts == {0, MaxCount}
SecondCounts == {0, 1}

(***************************************************************************)
(* Option<T>                                                               *)
(***************************************************************************)
None == {}
Some(x) == {x}
Option(S) == {None} \cup {Some(x) : x \in S}

Ok == "Ok"
UnmatchedFunctionLine == "UnmatchedFunctionLine"
UnmatchedChecksum == "UnmatchedChecksum"

(***************************************************************************)
(* The data model (crate lcov, as used by lib.rs lines 8-11).              *)
(***************************************************************************)
\* the BTreeMaps with keys in K and values in V
Maps(K, V) == UNION {[D -> V] : D \in SUBSET K}

FunctionValues(SL, N) == [start_line : Option(SL), count : N]
BranchValues(N) == [taken : Option(N)]
LineValues(CS, N) == [checksum : Option(CS), count : N]

NoMap == [k \in {} |-> {}]

\* the reports of one source file (section key 1) with every combination of
\* its function, branch and line present or not
OneFileReports(SL, CS, N) ==
    Maps({1},
         [functions : Maps(FunctionKeys, FunctionValues(SL, N)),
          branches : Maps(BranchKeys, BranchValues(N)),
          lines : Maps(LineKeys, LineValues(CS, N))])

\* the sections that hold a single record
OneRecordSections(SL, CS, N) ==
    {[functions |-> m, branches |-> NoMap, lines |-> NoMap] :
        m \in UNION {[{k} -> FunctionValues(SL, N)] : k \in FunctionKeys}}
    \cup {[functions |-> NoMap, branches |-> m, lines |-> NoMap] :
        m \in UNION {[{k} -> BranchValues(N)] : k \in BranchKeys}}
    \cup {[functions |-> NoMap, branches |-> NoMap, lines |-> m] :
        m \in UNION {[{k} -> LineValues(CS, N)] : k \in LineKeys}}

\* the reports of up to two source files with a single record each
TwoFileReports(SL, CS, N) == Maps(SectionKeys, OneRecordSections(SL, CS, N))

Kinds == {"functions", "branches", "lines"}

IgnoreError == [ignore_unmatched_line_error : BOOLEAN]
PostProcessOptions == [drop_zeros : BOOLEAN]

(***************************************************************************)
(* Iteration order.  A BTreeMap is iterated in ascending key order; `ord`  *)
(* gives, for each level, the order the keys are visited in, and the order *)
(* the three maps of a section are diffed in.                              *)
(***************************************************************************)
RECURSIVE Ascending(_)
Ascending(S) ==
    IF S = {} THEN <<>>
    ELSE LET m == CHOOSE x \in S : \A y \in S : x <= y
         IN <<m>> \o Ascending(S \ {m})

\* the keys in S, in the order `order` lists them
Iter(S, order) == SelectSeq(order, LAMBDA k : k \in S)

CodeOrder ==
    [sections |-> Ascending(SectionKeys),
     kinds |-> <<"functions", "branches", "lines">>,
     functions |-> Ascending(FunctionKeys),
     branches |-> Ascending(BranchKeys),
     lines |-> Ascending(LineKeys)]

(***************************************************************************)
(* trait Diff.  diff(&mut self, other, ignore) -> Result<(), MergeError>   *)
(* is modelled as an operator to [res, val]: the Result, and the value     *)
(* `self` holds when the call returns (also when it returns an Err).       *)
(***************************************************************************)

\* impl Diff for BranchValue
BranchValueDiff(self, other, ign) ==
    IF other.taken # None /\ (\E taken \in other.taken : taken > 0)
    THEN [res |-> Ok, val |-> [self EXCEPT !.taken = None]]
    ELSE [res |-> Ok, val |-> self]

\* FunctionValueDiff with `self.count = 0` left out of the ignored mismatch
FunctionValueDiffKeepsCount(self, other, ign) ==
    LET unmatched == /\ other.start_line # None
                     /\ self.start_line # None
                     /\ other.start_line # self.start_line
    IN  IF unmatched /\ ~ign.ignore_unmatched_line_error
        THEN [res |-> UnmatchedFunctionLine, val |-> self]
        ELSE IF other.count > 0
             THEN [res |-> Ok, val |-> [self EXCEPT !.count = 0]]
             ELSE [res |-> Ok, val |-> self]

\* impl Diff for FunctionValue
FunctionValueDiff(self, other, ign) ==
    LET unmatched == /\ other.start_line # None
                     /\ self.start_line # None
                     /\ other.start_line # self.start_line
        ignored == IF unmatched /\ ign.ignore_unmatched_line_error
                   THEN [self EXCEPT !.count = 0]
                   ELSE self
    IN  IF unmatched /\ ~ign.ignore_unmatched_line_error
        THEN [res |-> UnmatchedFunctionLine, val |-> self]
        ELSE IF other.count > 0
             THEN [res |-> Ok, val |-> [ignored EXCEPT !.count = 0]]
             ELSE [res |-> Ok, val |-> ignored]

\* LineValueDiff with `other.count >= 0` for `other.count > 0`
LineValueDiffClearsAlways(self, other, ign) ==
    IF /\ other.checksum # None
       /\ self.checksum # None
       /\ other.checksum # self.checksum
    THEN [res |-> UnmatchedChecksum, val |-> self]
    ELSE IF other.count >= 0
         THEN [res |-> Ok, val |-> [self EXCEPT !.count = 0]]
         ELSE [res |-> Ok, val |-> self]

\* LineValueDiff with the checksum mismatch put under the ignore option, as
\* the start-line mismatch is
LineValueDiffIgnores(self, other, ign) ==
    IF /\ other.checksum # None
       /\ self.checksum # None
       /\ other.checksum # self.checksum
       /\ ~ign.ignore_unmatched_line_error
    THEN [res |-> UnmatchedChecksum, val |-> self]
    ELSE IF other.count > 0
         THEN [res |-> Ok, val |-> [self EXCEPT !.count = 0]]
         ELSE [res |-> Ok, val |-> self]

\* LineValueDiff with the two Option<String> compared as they are, so that a
\* checksum absent on one side only is a mismatch
LineValueDiffStrict(self, other, ign) ==
    IF other.checksum # self.checksum
    THEN [res |-> UnmatchedChecksum, val |-> self]
    ELSE IF other.count > 0
         THEN [res |-> Ok, val |-> [self EXCEPT !.count = 0]]
         ELSE [res |-> Ok, val |-> self]

\* LineValueDiff with other's count subtracted (saturating) for the count
\* cleared
LineValueDiffSubtracts(self, other, ign) ==
    IF /\ other.checksum # None
       /\ self.checksum # None
       /\ other.checksum # self.checksum
    THEN [res |-> UnmatchedChecksum, val |-> self]
    ELSE IF other.count > 0
         THEN [res |-> Ok,
               val |-> [self EXCEPT !.count = IF self.count > other.count
                                              THEN self.count - other.count
                                              ELSE 0]]
         ELSE [res |-> Ok, val |-> self]

\* impl Diff for LineValue
LineValueDiff(self, other, ign) ==
    IF /\ other.checksum # None
       /\ self.checksum # None
       /\ other.checksum # self.checksum
    THEN [res |-> UnmatchedChecksum, val |-> self]
    ELSE IF other.count > 0
         THEN [res |-> Ok, val |-> [self EXCEPT !.count = 0]]
         ELSE [res |-> Ok, val |-> self]

\* V::diff for the values of the map `kind`: the sections of a report, or
\* the functions, branches or lines of a section
RECURSIVE ValueDiff(_, _, _, _, _)

\* EntryDiff with the value of `other` inserted into a vacant entry
EntryDiffInserts(kind, self, other, key, ign, ord) ==
    IF key \notin DOMAIN self
    THEN [res |-> Ok,
          val |-> [k \in DOMAIN self \cup {key} |->
                      IF k = key THEN other[key] ELSE self[k]]]
    ELSE LET d == ValueDiff(kind, self[key], other[key], ign, ord)
         IN  [res |-> d.res, val |-> [self EXCEPT ![key] = d.val]]

\* impl Diff for BTreeMap<K, V>, the body of the loop for the entry `key` of
\* `other`: match self.entry(key.clone()) { Vacant => {}, Occupied => diff? }
EntryDiff(kind, self, other, key, ign, ord) ==
    IF key \notin DOMAIN self
    THEN [res |-> Ok, val |-> self]
    ELSE LET d == ValueDiff(kind, self[key], other[key], ign, ord)
         IN  [res |-> d.res, val |-> [self EXCEPT ![key] = d.val]]

\* BTreeMapDiff without the `?`: the loop goes on after an Err and returns
\* the result of the last entry
BTreeMapDiffLastResult(kind, self, other, ign, ord) ==
    LET keys == Iter(DOMAIN other, ord[kind])
        at[i \in 0..Len(keys)] ==
            IF i = 0 THEN [res |-> Ok, val |-> self]
            ELSE EntryDiff(kind, at[i - 1].val, other, keys[i], ign, ord)
    IN  at[Len(keys)]

\* impl Diff for BTreeMap<K, V>: the entries of `other` in iteration order,
\* at[i] the state after i of them; an Err ends the loop
BTreeMapDiff(kind, self, other, ign, ord) ==
    LET keys == Iter(DOMAIN other, ord[kind])
        at[i \in 0..Len(keys)] ==
            IF i = 0 THEN [res |-> Ok, val |-> self]
            ELSE LET p == at[i - 1]
                 IN  IF p.res # Ok THEN p
                     ELSE EntryDiff(kind, p.val, other, keys[i], ign, ord)
    IN  at[Len(keys)]

\* impl Diff for SectionValue: its three maps, diffed in the order ord.kinds
\* (functions, then branches, then lines); an Err ends the call
SectionValueDiff(self, other, ign, ord) ==
    LET at[i \in 0..3] ==
            IF i = 0 THEN [res |-> Ok, val |-> self]
            ELSE LET p == at[i - 1]
                     kind == ord.kinds[i]
                 IN  IF p.res # Ok THEN p
                     ELSE LET d == BTreeMapDiff(kind, p.val[kind], other[kind], ign, ord)
                          IN  [res |-> d.res,
                               val |-> [p.val EXCEPT ![kind] = d.val]]
    IN  at[3]

ValueDiff(kind, self, other, ign, ord) ==
    CASE kind = "sections" -> SectionValueDiff(self, other, ign, ord)
      [] kind = "functions" -> FunctionValueDiff(self, other, ign)
      [] kind = "branches" -> BranchValueDiff(self, other, ign)
      [] kind = "lines" -> LineValueDiff(self, other, ign)

\* impl Diff for Report: the diff of the `sections` maps
ReportDiff(self, other, ign, ord) ==
    BTreeMapDiff("sections", self, other, ign, ord)

\* Report::new() followed by rep.merge(first.to_owned()): every entry of the
\* new report is vacant, so each section of `first` is inserted as it is
MergeIntoNew(report) ==
    LET new == [s \in {} |-> {}]
    IN  [s \in DOMAIN new \cup DOMAIN report |->
            IF s \in DOMAIN new THEN new[s] ELSE report[s]]

\* Retained with `taken > 0` for `taken.is_some()`
RetainedPositive(v) ==
    \/ \E k \in DOMAIN v.branches : \E taken \in v.branches[k].taken : taken > 0
    \/ \E k \in DOMAIN v.functions : v.functions[k].count > 0
    \/ \E k \in DOMAIN v.lines : v.lines[k].count > 0

\* the closure of rep.sections.retain
Retained(v) ==
    \/ \E k \in DOMAIN v.branches : v.branches[k].taken # None
    \/ \E k \in DOMAIN v.functions : v.functions[k].count > 0
    \/ \E k \in DOMAIN v.lines : v.lines[k].count > 0

\* rep.sections.retain(..)
Retain(sections) ==
    [s \in {x \in DOMAIN sections : Retained(sections[x])} |-> sections[s]]

\* diff_reports, the maps iterated as `ord` says: [res |-> Ok, report |-> r]
\* for Ok(r), [res |-> e] for Err(e)
DiffReportsIn(fst, snd, ign, post, ord) ==
    LET merged == MergeIntoNew(fst)
        d == ReportDiff(merged, snd, ign, ord)
    IN  IF d.res # Ok THEN [res |-> d.res]
        ELSE [res |-> Ok,
              report |-> IF post.drop_zeros THEN Retain(d.val) ELSE d.val]

\* diff_reports as the code runs it
DiffReports(fst, snd, ign, post) == DiffReportsIn(fst, snd, ign, post, CodeOrder)

(***************************************************************************)
(* One call of diff_reports, step by step.  `rep` is the working copy      *)
(* (None before it is built and after it is dropped), `todo` the entries   *)
(* of `second` the nested loops of rep.diff have still to visit, `ret`     *)
(* what the caller holds (None until the call returns).                    *)
(***************************************************************************)

RECURSIVE Flatten(_)
Flatten(seqs) == IF seqs = <<>> THEN <<>> ELSE Head(seqs) \o Flatten(Tail(seqs))

\* the entries of map `kind` of section s of `other`, in iteration order
MapVisits(other, s, kind, ord) ==
    LET keys == Iter(DOMAIN other[s][kind], ord[kind])
    IN  [i \in 1..Len(keys) |-> [section |-> s, kind |-> kind, key |-> keys[i]]]

\* the function, branch and line entries of `other` in the order the nested
\* loops of BTreeMap::diff and SectionValue::diff reach them
Visits(other, ord) ==
    LET secs == Iter(DOMAIN other, ord.sections)
    IN  Flatten([i \in 1..Len(secs) |->
            Flatten([j \in 1..3 |-> MapVisits(other, secs[i], ord.kinds[j], ord)])])

Working == CHOOSE r \in rep : TRUE

\* the inputs of the call
Inputs ==
    (OneFileReports(FirstStartLines, FirstChecksums, FirstCounts)
        \X OneFileReports(SecondStartLines, SecondChecksums, SecondCounts))
    \cup (TwoFileReports(FirstStartLines, FirstChecksums, FirstCounts)
        \X TwoFileReports(SecondStartLines, SecondChecksums, SecondCounts))

Init ==
    /\ \E input \in Inputs : first = input[1] /\ second = input[2]
    /\ ignore \in IgnoreError
    /\ post_process_options \in PostProcessOptions
    /\ rep = None
    /\ todo = <<>>
    /\ pc = "call"
    /\ ret = None

\* let mut rep = Report::new(); rep.merge(first.to_owned())?;
Merge ==
    /\ pc = "call"
    /\ rep' = Some(MergeIntoNew(first))
    /\ todo' = Visits(second, CodeOrder)
    /\ pc' = "diff"
    /\ UNCHANGED <<first, second, ignore, post_process_options, ret>>

\* the iteration of the loops of rep.diff(second, ignore) that reaches entry
\* v of `other`: nothing if v's section is vacant in `self`, and else the
\* body of the loop over the map v.kind of that section, at v's key
VisitEntry(self, other, v, ign) ==
    IF v.section \notin DOMAIN self
    THEN [res |-> Ok, val |-> self]
    ELSE LET d == EntryDiff(v.kind, self[v.section][v.kind],
                            other[v.section][v.kind], v.key, ign, CodeOrder)
         IN  [res |-> d.res, val |-> [self EXCEPT ![v.section][v.kind] = d.val]]

\* DiffStep with the working copy handed to the caller along with the error
DiffStepLeaks ==
    /\ pc = "diff"
    /\ todo # <<>>
    /\ LET d == VisitEntry(Working, second, Head(todo), ignore)
       IN  IF d.res # Ok
           THEN /\ rep' = None
                /\ ret' = Some([res |-> d.res, report |-> d.val])
                /\ pc' = "done"
                /\ UNCHANGED todo
           ELSE /\ rep' = Some(d.val)
                /\ todo' = Tail(todo)
                /\ UNCHANGED <<pc, ret>>
    /\ UNCHANGED <<first, second, ignore, post_process_options>>

\* rep.diff(second, ignore)?: one iteration.  An Err ends the call: the
\* working copy is dropped and the caller gets the error.
DiffStep ==
    /\ pc = "diff"
    /\ todo # <<>>
    /\ LET d == VisitEntry(Working, second, Head(todo), ignore)
       IN  IF d.res # Ok
           THEN /\ rep' = None
                /\ ret' = Some([res |-> d.res])
                /\ pc' = "done"
                /\ UNCHANGED todo
           ELSE /\ rep' = Some(d.val)
                /\ todo' = Tail(todo)
                /\ UNCHANGED <<pc, ret>>
    /\ UNCHANGED <<first, second, ignore, post_process_options>>

\* if post_process_options.drop_zeros { rep.sections.retain(..) }  Ok(rep)
PostProcess ==
    /\ pc = "diff"
    /\ todo = <<>>
    /\ ret' = Some([res |-> Ok,
                    report |-> IF post_process_options.drop_zeros
                               THEN Retain(Working) ELSE Working])
    /\ rep' = None
    /\ pc' = "done"
    /\ UNCHANGED <<first, second, ignore, post_process_options, todo>>

Next == Merge \/ DiffStep \/ PostProcess

Spec == Init /\ [][Next]_vars

(***************************************************************************)
(* Vocabulary of the properties.                                           *)
(***************************************************************************)
Done == pc = "done"

\* what the call returned: [res |-> Ok, report |-> r] or [res |-> error]
Returned == CHOOSE r \in ret : TRUE

Succeeded == Done /\ Returned.res = Ok
Failed == Done /\ Returned.res # Ok

\* the report of a call that succeeded
Out == Returned.report

IgnoreUnmatched == ignore.ignore_unmatched_line_error
DropZeros == post_process_options.drop_zeros

\* the sections, and within a section the keys, that both inputs hold
SharedSections == DOMAIN first \cap DOMAIN second
SharedKeys(s, kind) == DOMAIN first[s][kind] \cap DOMAIN second[s][kind]

\* a count held in an Option is positive
Positive(opt) == \E n \in opt : n > 0

\* <<s, k>>: function k of shared section s has start lines present on both
\* sides and unequal
UnmatchedFunctions ==
    UNION {{<<s, k>> : k \in {x \in SharedKeys(s, "functions") :
                /\ first[s].functions[x].start_line # None
                /\ second[s].functions[x].start_line # None
                /\ first[s].functions[x].start_line # second[s].functions[x].start_line}} :
           s \in SharedSections}

\* <<s, k>>: line k of shared section s has checksums present on both sides
\* and unequal
UnmatchedLines ==
    UNION {{<<s, k>> : k \in {x \in SharedKeys(s, "lines") :
                /\ first[s].lines[x].checksum # None
                /\ second[s].lines[x].checksum # None
                /\ first[s].lines[x].checksum # second[s].lines[x].checksum}} :
           s \in SharedSections}

\* the step-by-step call returns what DiffReports computes
StepsAgree == Done => Returned = DiffReports(first, second, ignore, post_process_options)

(***************************************************************************)
(* C1  Covered-transition.                                                 *)
(***************************************************************************)

\* the signal of a record of map `kind`: its count, or its taken-count
Signal(kind, v) == IF kind = "branches" THEN v.taken ELSE v.count
Cleared(kind) == IF kind = "branches" THEN None ELSE 0
IsPositive(kind, v) == IF kind = "branches" THEN Positive(v.taken) ELSE v.count > 0

\* C1 as claimed: after a successful call, every record present in both
\* inputs whose section is in the output holds the cleared signal if second's
\* signal is positive, and first's signal otherwise.
C1_CoveredTransitionAsClaimed ==
    Succeeded =>
        \A s \in SharedSections \cap DOMAIN Out : \A kind \in Kinds :
            \A k \in SharedKeys(s, kind) :
                Signal(kind, Out[s][kind][k]) =
                    IF IsPositive(kind, second[s][kind][k])
                    THEN Cleared(kind)
                    ELSE Signal(kind, first[s][kind][k])

\* C1: after a successful call, every record present in both inputs whose
\* section is in the output holds the cleared signal if second's signal is
\* positive or if it is a function whose start lines are present on both
\* sides and unequal (the call succeeds only when such a mismatch is
\* ignored), and first's signal otherwise.
C1_CoveredTransition ==
    Succeeded =>
        \A s \in SharedSections \cap DOMAIN Out : \A kind \in Kinds :
            \A k \in SharedKeys(s, kind) :
                Signal(kind, Out[s][kind][k]) =
                    IF \/ IsPositive(kind, second[s][kind][k])
                       \/ kind = "functions" /\ <<s, k>> \in UnmatchedFunctions
                    THEN Cleared(kind)
                    ELSE Signal(kind, first[s][kind][k])

\* a successful call in which a shared line was covered in `first` and is
\* cleared, a shared branch was taken in `first` and is kept because `second`
\* did not take it, and a shared function is cleared for its start line only
C1_Witness ==
    /\ Succeeded
    /\ \E s \in SharedSections \cap DOMAIN Out :
        /\ \E k \in SharedKeys(s, "lines") :
            /\ first[s].lines[k].count > 0
            /\ second[s].lines[k].count > 0
            /\ Out[s].lines[k].count = 0
        /\ \E k \in SharedKeys(s, "branches") :
            /\ Positive(first[s].branches[k].taken)
            /\ second[s].branches[k].taken = Some(0)
            /\ Out[s].branches[k].taken = first[s].branches[k].taken
        /\ \E k \in SharedKeys(s, "functions") :
            /\ <<s, k>> \in UnmatchedFunctions
            /\ first[s].functions[k].count > 0
            /\ second[s].functions[k].count = 0
            /\ Out[s].functions[k].count = 0

(***************************************************************************)
(* C2  Function-line guard.                                                *)
(***************************************************************************)

\* C2 as claimed: whenever a shared function has unequal start lines, the
\* call fails with UnmatchedFunctionLine if the mismatch is not ignored, and
\* succeeds with that function's count 0 if it is.
C2_FunctionLineGuardAsClaimed ==
    Done =>
        \A p \in UnmatchedFunctions :
            IF ~IgnoreUnmatched
            THEN Returned.res = UnmatchedFunctionLine
            ELSE /\ Returned.res = Ok
                 /\ p[1] \in DOMAIN Out => Out[p[1]].functions[p[2]].count = 0

\* C2: whenever a shared function of section s has unequal start lines: if
\* the mismatch is not ignored the call fails, with UnmatchedFunctionLine
\* unless a section before s holds a line with unequal checksums; if it is
\* ignored the call fails with UnmatchedChecksum when some shared line has
\* unequal checksums, and otherwise succeeds with that function's count 0
\* (where its section is still in the output).
C2_FunctionLineGuard ==
    Done =>
        \A p \in UnmatchedFunctions :
            IF ~IgnoreUnmatched
            THEN /\ Returned.res # Ok
                 /\ (\A q \in UnmatchedLines : q[1] >= p[1])
                        => Returned.res = UnmatchedFunctionLine
            ELSE IF UnmatchedLines # {}
            THEN Returned.res = UnmatchedChecksum
            ELSE /\ Returned.res = Ok
                 /\ p[1] \in DOMAIN Out => Out[p[1]].functions[p[2]].count = 0

\* an ignored start-line mismatch clears a function that `first` covered and
\* `second` did not
C2_Witness ==
    /\ Succeeded
    /\ IgnoreUnmatched
    /\ \E p \in UnmatchedFunctions :
        /\ p[1] \in DOMAIN Out
        /\ first[p[1]].functions[p[2]].count > 0
        /\ second[p[1]].functions[p[2]].count = 0
        /\ Out[p[1]].functions[p[2]].count = 0

(***************************************************************************)
(* C3  Checksum guard.                                                     *)
(***************************************************************************)

\* C3 as claimed: whenever a shared line has unequal checksums, the call
\* fails with UnmatchedChecksum and returns no report.
C3_ChecksumGuardAsClaimed ==
    Done /\ UnmatchedLines # {} =>
        /\ Returned.res = UnmatchedChecksum
        /\ "report" \notin DOMAIN Returned

\* C3: whenever a shared line of section s has unequal checksums, the call
\* fails and returns no report, whatever the options; the error is
\* UnmatchedChecksum unless start-line mismatches are not ignored and s or a
\* section before it holds a function with unequal start lines.
C3_ChecksumGuard ==
    Done =>
        \A p \in UnmatchedLines :
            /\ Returned.res \in {UnmatchedChecksum, UnmatchedFunctionLine}
            /\ "report" \notin DOMAIN Returned
            /\ (IgnoreUnmatched \/ \A q \in UnmatchedFunctions : q[1] > p[1])
                    => Returned.res = UnmatchedChecksum

\* a checksum mismatch fails a call that ignores the start-line mismatch it
\* met before and that drops zeros
C3_Witness ==
    /\ Done
    /\ IgnoreUnmatched
    /\ DropZeros
    /\ UnmatchedFunctions # {}
    /\ UnmatchedLines # {}
    /\ Returned = [res |-> UnmatchedChecksum]

(***************************************************************************)
(* C4  Pruning.                                                            *)
(***************************************************************************)

\* C4: after a successful call with drop_zeros, every section of the output
\* has a function with count > 0, a branch with taken-count > 0 or a line
\* with count > 0.
C4_Pruning ==
    Succeeded /\ DropZeros =>
        \A s \in DOMAIN Out :
            \/ \E k \in DOMAIN Out[s].functions : Out[s].functions[k].count > 0
            \/ \E k \in DOMAIN Out[s].branches : Positive(Out[s].branches[k].taken)
            \/ \E k \in DOMAIN Out[s].lines : Out[s].lines[k].count > 0

(***************************************************************************)
(* C5  Key-subset.                                                         *)
(***************************************************************************)

\* C5: after a successful call, every section key of the output is a section
\* key of `first`, and every function, branch and line key of an output
\* section is a key of the same map of that section of `first`.
C5_KeySubset ==
    Succeeded =>
        \A s \in DOMAIN Out :
            /\ s \in DOMAIN first
            /\ \A kind \in Kinds : DOMAIN Out[s][kind] \subseteq DOMAIN first[s][kind]

\* a successful call whose `second` holds a section `first` lacks and, in a
\* section that reaches the output, a record `first` lacks
C5_Witness ==
    /\ Succeeded
    /\ DOMAIN second \ DOMAIN first # {}
    /\ \E s \in SharedSections \cap DOMAIN Out : \E kind \in Kinds :
        DOMAIN second[s][kind] \ DOMAIN first[s][kind] # {}

(***************************************************************************)
(* C6  Atomic failure and read-only inputs.                                *)
(***************************************************************************)

\* C6: every step of a call leaves `first` and `second` as they were; the
\* caller holds nothing until the call returns, and then either Ok with a
\* report, every entry of `second` visited, or an error and no report; the
\* step that meets the first mismatch visits no further entry and drops the
\* working copy; and a call that returned takes no further step.
C6_AtomicFailure ==
    [][/\ first' = first
       /\ second' = second
       /\ pc # "done"
       /\ pc' # "done" => ret' = None
       /\ pc' = "done" =>
            /\ ret' # None
            /\ rep' = None
            /\ \A r \in ret' :
                \/ /\ r.res = Ok
                   /\ DOMAIN r = {"res", "report"}
                   /\ todo' = <<>>
                \/ /\ r.res \in {UnmatchedFunctionLine, UnmatchedChecksum}
                   /\ DOMAIN r = {"res"}
                   /\ todo' = todo]_vars

\* a call that fails on the line of a section after it has cleared the
\* section's function, with the line still to be visited
C6_Witness ==
    /\ Failed
    /\ "report" \notin DOMAIN Returned
    /\ todo # <<>>
    /\ Head(todo).kind = "lines"
    /\ \E s \in SharedSections : \E k \in SharedKeys(s, "functions") :
        /\ s = Head(todo).section
        /\ first[s].functions[k].count > 0
        /\ second[s].functions[k].count > 0

(***************************************************************************)
(* C7  Order independence.                                                 *)
(***************************************************************************)
Perms(S) ==
    {p \in [1..Cardinality(S) -> S] : \A i, j \in DOMAIN p : p[i] = p[j] => i = j}

\* every order of the three maps of a section and of the keys of each level
Orders ==
    [sections : Perms(SectionKeys),
     kinds : Perms(Kinds),
     functions : Perms(FunctionKeys),
     branches : Perms(BranchKeys),
     lines : Perms(LineKeys)]

\* C7 as claimed: in whatever order the maps of a section are diffed and the
\* keys of a map visited, diff_reports returns what the call returned, be it
\* a report or an error.
C7_OrderIndependenceAsClaimed ==
    Done =>
        \A ord \in Orders :
            DiffReportsIn(first, second, ignore, post_process_options, ord) = Returned

\* C7: in whatever order the maps of a section are diffed and the keys of a
\* map visited, diff_reports succeeds if and only if the call succeeded, and
\* then returns the same report; when it fails the error is the same too
\* unless the inputs hold both a function with unequal start lines, not
\* ignored, and a line with unequal checksums.
C7_OrderIndependence ==
    Done =>
        \A ord \in Orders :
            LET r == DiffReportsIn(first, second, ignore, post_process_options, ord)
            IN  IF Returned.res = Ok
                THEN r = Returned
                ELSE /\ r.res # Ok
                     /\ "report" \notin DOMAIN r
                     /\ \/ r.res = Returned.res
                        \/ /\ ~IgnoreUnmatched
                           /\ UnmatchedFunctions # {}
                           /\ UnmatchedLines # {}

\* a call over two shared sections that fails with one error where another
\* order fails with the other
C7_Witness ==
    /\ Failed
    /\ Cardinality(SharedSections) = 2
    /\ \E ord \in Orders :
        LET r == DiffReportsIn(first, second, ignore, post_process_options, ord)
        IN  r.res # Ok /\ r.res # Returned.res

(***************************************************************************)
(* C8  Pruning is decided on the post-diff state.                          *)
(***************************************************************************)

\* the section holds a branch whose taken-count is present, a function with
\* count > 0 or a line with count > 0
HasSignal(v) ==
    \/ \E k \in DOMAIN v.branches : v.branches[k].taken # None
    \/ \E k \in DOMAIN v.functions : v.functions[k].count > 0
    \/ \E k \in DOMAIN v.lines : v.lines[k].count > 0

C9_NoSpuriousErrors ==
    Done =>
        (Returned.res # Ok <=>
            \/ UnmatchedLines # {}
            \/ ~IgnoreUnmatched /\ UnmatchedFunctions # {})

\* a call that succeeds, start-line mismatches not ignored, on a shared line
\* with a checksum on one side only and other counts, and a shared function
\* with a start line on one side only
C9_Witness ==
    /\ Succeeded
    /\ ~IgnoreUnmatched
    /\ \E s \in SharedSections :
        /\ \E k \in SharedKeys(s, "lines") :
            /\ first[s].lines[k].checksum # None
            /\ second[s].lines[k].checksum = None
            /\ first[s].lines[k].count # second[s].lines[k].count
        /\ \E k \in SharedKeys(s, "functions") :
            /\ first[s].functions[k].start_line = None
            /\ second[s].functions[k].start_line # None

(***************************************************************************)
(* C10  Idempotence.                                                       *)
(***************************************************************************)

\* C10: a report r that a call returned, diffed against the same `second`
\* with the same options, is returned as it is.
C10_Idempotence ==
    Succeeded =>
        DiffReports(Out, second, ignore, post_process_options) = Returned

\* a successful call that cleared a record of `first`, kept the positive
\* count of another and returns both
C10_Witness ==
    /\ Succeeded
    /\ \E s \in SharedSections \cap DOMAIN Out :
        /\ \E k \in SharedKeys(s, "functions") :
            first[s].functions[k].count > 0 /\ Out[s].functions[k].count = 0
        /\ \E k \in SharedKeys(s, "lines") :
            second[s].lines[k].count = 0 /\ Out[s].lines[k].count > 0

====
